---- MODULE Spec2Model ----
(***************************************************************************)
(* A model of the store of the proglog commit log (package log): a file    *)
(* wrapped in a bufio.Writer, a size counter and a mutex, with the four    *)
(* methods Append, Read, ReadAt and Close, called by concurrent threads.   *)
(*                                                                         *)
(* The file is modelled as the sequence of its bytes.  Writes made through *)
(* the handle land at the end of the file (the handle is in append mode,   *)
(* or its offset is at the end of the file, when it is given to newStore). *)
(***************************************************************************)
EXTENDS Integers, Sequences, FiniteSets, TLC

(***************************************************************************)
(* Bounds of the model.                                                    *)
(***************************************************************************)
\* capacity of the bufio.Writer (4096 in the Go library, scaled down so that
\* the writer fills up and flushes by itself inside Append)
BufSize == 10
\* number of store operations called in one behaviour
MaxOps == 3
\* number of I/O faults injected in one behaviour
MaxFaults == 1
\* number of HTTP requests handled in one behaviour
MaxReqs == 4

\* number of bytes used to store a record's length
lenWidth == 8

Threads == {"t1", "t2"}
None == "none"

\* the payloads given to Append: empty, short, and one longer than the
\* writer's buffer
LongRecord == <<3, 3, 3, 3, 3, 3, 3, 3, 3, 3, 3, 3, 3, 3, 3>>
Records == {<< >>, <<1, 2>>, LongRecord}

\* what the file holds when the store is constructed: nothing, or the frame
\* of a record <<7>> written by an earlier run
InitFiles == {<< >>, <<0, 0, 0, 0, 0, 0, 0, 1, 7>>}

\* positions given to Read besides those Append handed out
ProbePositions == {0, 6}

\* the buffers and raw offsets given to ReadAt
ReadAtArgs == {[len |-> 9, off |-> 0], [len |-> 0, off |-> 3], [len |-> 2, off |-> -1]}

VARIABLES
    phase,      \* "new": newStore not called yet; "open": constructed; "failed": newStore returned an error
    initFile,   \* the content of the file when newStore was called
    file,       \* the content of the file (os.File)
    closed,     \* whether the file handle has been closed
    buf,        \* the bytes held by the bufio.Writer
    werr,       \* the sticky error of the bufio.Writer
    size,       \* the store's size field
    mu,         \* the thread that holds the mutex, or None
    pc,         \* where each thread is
    arg,        \* the call each thread is making
    ret,        \* what the last call of each thread returned
    appended,   \* the successful Appends, in the order they returned: record, position, count
    ops,        \* the number of calls made
    faults,     \* the number of I/O faults injected
    log,        \* the records of the Log the HTTP server owns, by offset
    req,        \* the last request the server handled: handler and body
    logRet,     \* the call the last request made to the Log, and what it returned
    resp,       \* the response to the last request
    logCalls,   \* the number of calls made to the Log
    produced,   \* the records the produce handler accepted, each with the offset its response carried
    served      \* the number of requests handled

storeVars == <<phase, initFile, file, closed, buf, werr, size, mu, pc, arg, ret, appended, ops, faults>>

httpVars == <<log, req, logRet, resp, logCalls, produced, served>>

vars == <<phase, initFile, file, closed, buf, werr, size, mu, pc, arg, ret, appended, ops, faults,
          log, req, logRet, resp, logCalls, produced, served>>

(***************************************************************************)
(* Encoding of the length prefix.                                          *)
(***************************************************************************)
\* the 8 bytes of n, least significant first
EncLittleEndian(n) ==
    <<n % 256, (n \div 256) % 256, (n \div 65536) % 256, 0, 0, 0, 0, 0>>

\* enc.PutUint64: the 8 bytes of n, most significant first (n < 2^24 here)
Enc(n) ==
    <<0, 0, 0, 0, 0, (n \div 65536) % 256, (n \div 256) % 256, n % 256>>

\* a length no file of the model reaches: stands for every value >= 2^24
Huge == 256 * 256 * 256

\* enc.Uint64: the number the 8 bytes bs stand for, most significant first
Uint64(bs) ==
    IF \E i \in 1..5 : bs[i] # 0
    THEN Huge
    ELSE bs[6] * 65536 + bs[7] * 256 + bs[8]

\* make([]byte, n) panics when n is beyond the largest allocation (2^48)
MakePanics(bs) == bs[1] # 0 \/ bs[2] # 0

(***************************************************************************)
(* The file handle.                                                        *)
(***************************************************************************)
\* a write that a closed handle accepts
FileWriteAfterClose(f, isClosed, k, bs) ==
    {[file |-> f \o bs, n |-> Len(bs), err |-> FALSE, faults |-> k]}

\* os.File.Write(bs), bs not empty: all of bs is written, or the write
\* fails after a part of it
FileWrite(f, isClosed, k, bs) ==
    IF isClosed
    THEN {[file |-> f, n |-> 0, err |-> TRUE, faults |-> k]}
    ELSE {[file |-> f \o bs, n |-> Len(bs), err |-> FALSE, faults |-> k]}
         \cup (IF k < MaxFaults
               THEN {[file |-> f \o SubSeq(bs, 1, m), n |-> m, err |-> TRUE, faults |-> k + 1] :
                        m \in 0..(Len(bs) - 1)}
               ELSE {})

\* os.File.ReadAt(b, off) with len(b) = n: the bytes read and whether an
\* error (io.EOF for a short read) is returned
FileReadAt(f, isClosed, k, n, off) ==
    IF off < 0 THEN {[data |-> << >>, err |-> TRUE, faults |-> k]}
    ELSE IF n = 0 THEN {[data |-> << >>, err |-> FALSE, faults |-> k]}
    ELSE IF isClosed THEN {[data |-> << >>, err |-> TRUE, faults |-> k]}
    ELSE {IF off + n <= Len(f)
          THEN [data |-> SubSeq(f, off + 1, off + n), err |-> FALSE, faults |-> k]
          ELSE [data |-> SubSeq(f, off + 1, Len(f)), err |-> TRUE, faults |-> k]}
         \cup (IF k < MaxFaults
               THEN {[data |-> << >>, err |-> TRUE, faults |-> k + 1]}
               ELSE {})

\* os.File.Close: the handle is closed; an error is returned when it was
\* closed already or the close fails
FileClose(isClosed, k) ==
    IF isClosed
    THEN {[err |-> TRUE, faults |-> k]}
    ELSE {[err |-> FALSE, faults |-> k]}
         \cup (IF k < MaxFaults THEN {[err |-> TRUE, faults |-> k + 1]} ELSE {})

(***************************************************************************)
(* The buffered writer.  A writer state is a record                        *)
(* [file, buf, werr, faults]; an outcome adds err (and nn for Write).      *)
(***************************************************************************)
\* a flush that empties the buffer without writing it
BufFlushDiscard(w, isClosed) ==
    {[file |-> w.file, buf |-> << >>, werr |-> w.werr, faults |-> w.faults, err |-> w.werr]}

\* bufio.Writer.Flush
BufFlush(w, isClosed) ==
    IF w.werr THEN {[file |-> w.file, buf |-> w.buf, werr |-> TRUE, faults |-> w.faults, err |-> TRUE]}
    ELSE IF w.buf = << >>
    THEN {[file |-> w.file, buf |-> w.buf, werr |-> FALSE, faults |-> w.faults, err |-> FALSE]}
    ELSE {[file |-> o.file,
           buf |-> IF o.err THEN SubSeq(w.buf, o.n + 1, Len(w.buf)) ELSE << >>,
           werr |-> o.err, faults |-> o.faults, err |-> o.err] :
             o \in FileWrite(w.file, isClosed, w.faults, w.buf)}

RECURSIVE BufWriteLoop(_, _, _, _)
\* bufio.Writer.Write(p): nn counts the bytes of p accepted so far
BufWriteLoop(w, isClosed, p, nn) ==
    IF Len(p) > BufSize - Len(w.buf) /\ ~w.werr
    THEN IF w.buf = << >>
         THEN \* large write, empty buffer: write directly to the file
              UNION {BufWriteLoop([file |-> o.file, buf |-> << >>, werr |-> o.err, faults |-> o.faults],
                                  isClosed, SubSeq(p, o.n + 1, Len(p)), nn + o.n) :
                        o \in FileWrite(w.file, isClosed, w.faults, p)}
         ELSE \* fill the buffer and flush it
              LET n == BufSize - Len(w.buf)
                  full == [file |-> w.file, buf |-> w.buf \o SubSeq(p, 1, n),
                           werr |-> FALSE, faults |-> w.faults]
              IN  UNION {BufWriteLoop([file |-> o.file, buf |-> o.buf, werr |-> o.werr, faults |-> o.faults],
                                      isClosed, SubSeq(p, n + 1, Len(p)), nn + n) :
                            o \in BufFlush(full, isClosed)}
    ELSE IF w.werr
    THEN {[file |-> w.file, buf |-> w.buf, werr |-> TRUE, faults |-> w.faults, nn |-> nn, err |-> TRUE]}
    ELSE {[file |-> w.file, buf |-> w.buf \o p, werr |-> FALSE, faults |-> w.faults,
           nn |-> nn + Len(p), err |-> FALSE]}

BufWrite(w, isClosed, p) == BufWriteLoop(w, isClosed, p, 0)

Writer == [file |-> file, buf |-> buf, werr |-> werr, faults |-> faults]

(***************************************************************************)
(* Results of calls.                                                       *)
(***************************************************************************)
NoArg == [op |-> None, rec |-> << >>, pos |-> 0, len |-> 0, off |-> 0, seen |-> 0]
NoRet == [op |-> None, kind |-> None, n |-> 0, pos |-> 0, data |-> << >>, seen |-> 0]

\* seen: for Read, the number of Appends that had returned when Read was
\* called; for Close, the number that had returned when the handle was closed
Result(t, kind, n, pos, data, seen) ==
    [op |-> arg[t].op, kind |-> kind, n |-> n, pos |-> pos, data |-> data, seen |-> seen]

(***************************************************************************)
(* The HTTP server: requests, responses, and the Log it owns.              *)
(***************************************************************************)
StatusOK == 200
StatusBadRequest == 400
StatusNotFound == 404
StatusInternalServerError == 500

\* the records clients send; ZeroRecord is Record{}
ZeroRecord == "zero"
RecordValues == {ZeroRecord, "a", "b"}

\* a request body: bytes that are not JSON, or a JSON object with some of the
\* fields "record" and "offset"; offsetOK: the offset is a number a uint64 holds
Garbage == [json |-> "garbage", has |-> {}, record |-> ZeroRecord, offset |-> 0, offsetOK |-> TRUE]
Object(has, rec, off, ok) == [json |-> "object", has |-> has, record |-> rec, offset |-> off, offsetOK |-> ok]
Bodies ==
    {Garbage, Object({}, ZeroRecord, 0, TRUE), Object({"offset"}, ZeroRecord, 0, FALSE),
     Object({"record", "offset"}, "a", 1, TRUE)}
    \cup {Object({"record"}, r, 0, TRUE) : r \in {"a", "b"}}
    \cup {Object({"offset"}, ZeroRecord, o, TRUE) : o \in {0, 1, 2, 5}}

\* json.NewDecoder(r.Body).Decode(&req) into a ProduceRequest: fields that
\* are absent keep their zero value, fields the struct lacks are ignored
DecodeProduce(b) ==
    IF b.json # "object"
    THEN [err |-> TRUE, record |-> ZeroRecord]
    ELSE [err |-> FALSE, record |-> IF "record" \in b.has THEN b.record ELSE ZeroRecord]

\* json.NewDecoder(r.Body).Decode(&req) into a ConsumeRequest
DecodeConsume(b) ==
    IF b.json # "object" \/ ("offset" \in b.has /\ ~b.offsetOK)
    THEN [err |-> TRUE, offset |-> 0]
    ELSE [err |-> FALSE, offset |-> IF "offset" \in b.has THEN b.offset ELSE 0]

NoReq == [handler |-> None, body |-> Garbage]
NoLogRet == [op |-> None, err |-> None, offset |-> 0, record |-> ZeroRecord]
NoResp == [status |-> 0, kind |-> None, offset |-> 0, record |-> ZeroRecord]

\* http.Error(w, err.Error(), status)
HTTPError(status) == [status |-> status, kind |-> "text", offset |-> 0, record |-> ZeroRecord]

\* a response that carries the offset after the one the Log assigned
ProduceResponseNext(off) == [status |-> StatusOK, kind |-> "json", offset |-> off + 1, record |-> ZeroRecord]

\* res := ProduceResponse{Offset: off}
ProduceResponse(off) == [status |-> StatusOK, kind |-> "json", offset |-> off, record |-> ZeroRecord]

\* res := ConsumeResponse{Record: record}
ConsumeResponse(rec) == [status |-> StatusOK, kind |-> "json", offset |-> 0, record |-> rec]

\* json.NewEncoder(w).Encode(res): the response is written, or the write to
\* the client fails and http.Error(..., 500) follows; the status the client
\* is sent is then the 200 of the failed write or the 500
Encode(res) ==
    {res} \cup {[status |-> st, kind |-> "broken", offset |-> 0, record |-> ZeroRecord] :
                   st \in {StatusOK, StatusInternalServerError}}

\* Log.Append(record): the record gets the next offset, or the Log fails
LogAppend(l, rec) ==
    {[log |-> l \o <<rec>>, off |-> Len(l), err |-> None],
     [log |-> l, off |-> 0, err |-> "other"]}

\* Log.Read(offset): the record at the offset, ErrOffsetNotFound, or a failure
LogRead(l, off) ==
    IF off >= Len(l)
    THEN {[rec |-> ZeroRecord, err |-> "notfound"]}
    ELSE {[rec |-> l[off + 1], err |-> None], [rec |-> ZeroRecord, err |-> "other"]}

\* newHTTPServer: a server with a new Log
InitHTTP ==
    /\ log = << >>
    /\ req = NoReq
    /\ logRet = NoLogRet
    /\ resp = NoResp
    /\ logCalls = 0
    /\ produced = << >>
    /\ served = 0

(***************************************************************************)
(* Construction.                                                           *)
(***************************************************************************)
Init ==
    /\ phase = "new"
    /\ initFile \in InitFiles
    /\ file = initFile
    /\ closed = FALSE
    /\ buf = << >>
    /\ werr = FALSE
    /\ size = 0
    /\ mu = None
    /\ pc = [t \in Threads |-> "idle"]
    /\ arg = [t \in Threads |-> NoArg]
    /\ ret = [t \in Threads |-> NoRet]
    /\ appended = << >>
    /\ ops = 0
    /\ faults = 0
    /\ InitHTTP

\* a newStore that assumes an empty file
NewStoreSizeZero(f) == 0

\* the size newStore gives the store: the length of the file on disk
NewStoreSize(f) == Len(f)

\* newStore: os.Stat succeeds and the store is built, or it fails and there
\* is no store
NewStore ==
    /\ phase = "new"
    /\ \/ /\ phase' = "open"
          /\ size' = NewStoreSize(file)
          /\ buf' = << >>
          /\ UNCHANGED faults
       \/ /\ faults < MaxFaults
          /\ faults' = faults + 1
          /\ phase' = "failed"
          /\ UNCHANGED <<size, buf>>
    /\ UNCHANGED <<initFile, file, closed, werr, mu, pc, arg, ret, appended, ops>>
    /\ UNCHANGED httpVars

(***************************************************************************)
(* Calls, and the mutex.                                                   *)
(***************************************************************************)
ReadPositions == {appended[k].pos : k \in 1..Len(appended)} \cup ProbePositions

\* a thread calls Append, Read, ReadAt or Close
Call(t) ==
    /\ phase = "open"
    /\ pc[t] = "idle"
    /\ ops < MaxOps
    /\ \/ \E p \in Records : arg' = [arg EXCEPT ![t] = [NoArg EXCEPT !.op = "Append", !.rec = p]]
       \/ \E pos \in ReadPositions :
            arg' = [arg EXCEPT ![t] = [NoArg EXCEPT !.op = "Read", !.pos = pos, !.seen = Len(appended)]]
       \/ \E a \in ReadAtArgs :
            arg' = [arg EXCEPT ![t] = [NoArg EXCEPT !.op = "ReadAt", !.len = a.len, !.off = a.off]]
       \/ arg' = [arg EXCEPT ![t] = [NoArg EXCEPT !.op = "Close"]]
    /\ pc' = [pc EXCEPT ![t] = "lock"]
    /\ ops' = ops + 1
    /\ UNCHANGED <<phase, initFile, file, closed, buf, werr, size, mu, ret, appended, faults>>
    /\ UNCHANGED httpVars

\* the first step of each method once it holds the lock
Body(op) == IF op = "Append" THEN "append" ELSE "flush"

\* a Lock that does not wait for the mutex to be free
LockNoWait(t) ==
    /\ pc[t] = "lock"
    /\ mu' = t
    /\ pc' = [pc EXCEPT ![t] = Body(arg[t].op)]
    /\ UNCHANGED <<phase, initFile, file, closed, buf, werr, size, arg, ret, appended, ops, faults>>
    /\ UNCHANGED httpVars

\* s.mu.Lock()
Lock(t) ==
    /\ pc[t] = "lock"
    /\ mu = None
    /\ mu' = t
    /\ pc' = [pc EXCEPT ![t] = Body(arg[t].op)]
    /\ UNCHANGED <<phase, initFile, file, closed, buf, werr, size, arg, ret, appended, ops, faults>>
    /\ UNCHANGED httpVars

\* defer s.mu.Unlock(), and the return; a call that panicked unwinds through
\* the deferred unlock and its thread makes no further call
Unlock(t) ==
    /\ pc[t] = "unlock"
    /\ mu' = None
    /\ pc' = [pc EXCEPT ![t] = IF ret[t].kind = "panic" THEN "panicked" ELSE "idle"]
    /\ UNCHANGED <<phase, initFile, file, closed, buf, werr, size, arg, ret, appended, ops, faults>>
    /\ UNCHANGED httpVars

(***************************************************************************)
(* Append.                                                                 *)
(***************************************************************************)
\* a count that leaves the length prefix out
AppendCountPayloadOnly(w) == w

\* n = uint64(w + lenWidth)
AppendCount(w) == w + lenWidth

\* s.size = n
AppendSize(old, n) == n

\* a failure return that counts the length prefix into size
AppendFailureCounting(o, sz) ==
    [file |-> o.file, buf |-> o.buf, werr |-> o.werr, faults |-> o.faults,
     ok |-> FALSE, n |-> 0, pos |-> 0, size |-> sz + lenWidth]

\* return 0, 0, err: what a write o left behind, and the size as it was
AppendFailure(o, sz) ==
    [file |-> o.file, buf |-> o.buf, werr |-> o.werr, faults |-> o.faults,
     ok |-> FALSE, n |-> 0, pos |-> 0, size |-> sz]

\* the outcomes of the body of Append(p) from the size sz and the writer w
AppendOutcomes(w, isClosed, sz, p) ==
    UNION {IF o1.err
           THEN {AppendFailure(o1, sz)}
           ELSE {IF o2.err
                 THEN AppendFailure(o2, sz)
                 ELSE [file |-> o2.file, buf |-> o2.buf, werr |-> o2.werr, faults |-> o2.faults,
                       ok |-> TRUE, n |-> AppendCount(o2.nn), pos |-> sz,
                       size |-> AppendSize(sz, AppendCount(o2.nn))] :
                    o2 \in BufWrite([file |-> o1.file, buf |-> o1.buf, werr |-> o1.werr, faults |-> o1.faults],
                                    isClosed, p)} :
             o1 \in BufWrite(w, isClosed, Enc(Len(p)))}

StoreAppend(t) ==
    /\ pc[t] = "append"
    /\ \E o \in AppendOutcomes(Writer, closed, size, arg[t].rec) :
         /\ file' = o.file
         /\ buf' = o.buf
         /\ werr' = o.werr
         /\ faults' = o.faults
         /\ size' = o.size
         /\ ret' = [ret EXCEPT ![t] = Result(t, IF o.ok THEN "ok" ELSE "err", o.n, o.pos, << >>, 0)]
         /\ appended' = IF o.ok
                        THEN appended \o <<[rec |-> arg[t].rec, pos |-> o.pos, n |-> o.n]>>
                        ELSE appended
    /\ pc' = [pc EXCEPT ![t] = "unlock"]
    /\ UNCHANGED <<phase, initFile, closed, mu, arg, ops>>
    /\ UNCHANGED httpVars

(***************************************************************************)
(* The flush that Read, ReadAt and Close start with.                       *)
(***************************************************************************)
\* a flush whose error is dropped: the method goes on
FlushStepSwallow(t, then) ==
    \E o \in BufFlush(Writer, closed) :
        /\ file' = o.file
        /\ buf' = o.buf
        /\ werr' = o.werr
        /\ faults' = o.faults
        /\ ret' = ret
        /\ pc' = [pc EXCEPT ![t] = then]

\* s.buf.Flush(), and where the method goes when it succeeded
FlushStep(t, then) ==
    \E o \in BufFlush(Writer, closed) :
        /\ file' = o.file
        /\ buf' = o.buf
        /\ werr' = o.werr
        /\ faults' = o.faults
        /\ IF o.err
           THEN /\ ret' = [ret EXCEPT ![t] = Result(t, "err", 0, 0, << >>, 0)]
                /\ pc' = [pc EXCEPT ![t] = "unlock"]
           ELSE /\ ret' = ret
                /\ pc' = [pc EXCEPT ![t] = then]

\* a Read that goes to its positional reads without flushing
ReadNoFlush(t) ==
    /\ pc[t] = "flush"
    /\ arg[t].op = "Read"
    /\ pc' = [pc EXCEPT ![t] = "read"]
    /\ UNCHANGED <<phase, initFile, file, closed, buf, werr, size, mu, arg, ret, appended, ops, faults>>
    /\ UNCHANGED httpVars

\* a Close that closes the handle without flushing
CloseNoFlush(t) ==
    /\ pc[t] = "flush"
    /\ arg[t].op = "Close"
    /\ pc' = [pc EXCEPT ![t] = "close"]
    /\ UNCHANGED <<phase, initFile, file, closed, buf, werr, size, mu, arg, ret, appended, ops, faults>>
    /\ UNCHANGED httpVars

\* a Close that goes on to close the handle when its flush failed
CloseFlushAlwaysClose(t) ==
    /\ pc[t] = "flush"
    /\ arg[t].op = "Close"
    /\ \E o \in BufFlush(Writer, closed) :
         /\ file' = o.file
         /\ buf' = o.buf
         /\ werr' = o.werr
         /\ faults' = o.faults
    /\ pc' = [pc EXCEPT ![t] = "close"]
    /\ UNCHANGED <<phase, initFile, closed, size, mu, arg, ret, appended, ops>>
    /\ UNCHANGED httpVars

ReadFlush(t) ==
    /\ pc[t] = "flush"
    /\ arg[t].op = "Read"
    /\ FlushStep(t, "read")
    /\ UNCHANGED <<phase, initFile, closed, size, mu, arg, appended, ops>>
    /\ UNCHANGED httpVars

ReadAtFlush(t) ==
    /\ pc[t] = "flush"
    /\ arg[t].op = "ReadAt"
    /\ FlushStep(t, "readat")
    /\ UNCHANGED <<phase, initFile, closed, size, mu, arg, appended, ops>>
    /\ UNCHANGED httpVars

CloseFlush(t) ==
    /\ pc[t] = "flush"
    /\ arg[t].op = "Close"
    /\ FlushStep(t, "close")
    /\ UNCHANGED <<phase, initFile, closed, size, mu, arg, appended, ops>>
    /\ UNCHANGED httpVars

(***************************************************************************)
(* Read.                                                                   *)
(***************************************************************************)
\* the two positional reads of Read(pos): the length prefix, then the payload
ReadOutcomes(f, isClosed, k, pos) ==
    UNION {IF o1.err
           THEN {[kind |-> "err", data |-> << >>, faults |-> o1.faults]}
           ELSE IF MakePanics(o1.data)
           THEN {[kind |-> "panic", data |-> << >>, faults |-> o1.faults]}
           ELSE {IF o2.err
                 THEN [kind |-> "err", data |-> << >>, faults |-> o2.faults]
                 ELSE [kind |-> "ok", data |-> o2.data, faults |-> o2.faults] :
                    o2 \in FileReadAt(f, isClosed, o1.faults, Uint64(o1.data), pos + lenWidth)} :
             o1 \in FileReadAt(f, isClosed, k, lenWidth, pos)}

ReadRecord(t) ==
    /\ pc[t] = "read"
    /\ \E o \in ReadOutcomes(file, closed, faults, arg[t].pos) :
         /\ ret' = [ret EXCEPT ![t] = Result(t, o.kind, 0, arg[t].pos, o.data, arg[t].seen)]
         /\ faults' = o.faults
    /\ pc' = [pc EXCEPT ![t] = "unlock"]
    /\ UNCHANGED <<phase, initFile, file, closed, buf, werr, size, mu, arg, appended, ops>>
    /\ UNCHANGED httpVars

(***************************************************************************)
(* ReadAt.                                                                 *)
(***************************************************************************)
\* return s.File.ReadAt(p, off)
ReadAtFile(t) ==
    /\ pc[t] = "readat"
    /\ \E o \in FileReadAt(file, closed, faults, arg[t].len, arg[t].off) :
         /\ ret' = [ret EXCEPT ![t] =
                      Result(t, IF o.err THEN "err" ELSE "ok", Len(o.data), 0, o.data, 0)]
         /\ faults' = o.faults
    /\ pc' = [pc EXCEPT ![t] = "unlock"]
    /\ UNCHANGED <<phase, initFile, file, closed, buf, werr, size, mu, arg, appended, ops>>
    /\ UNCHANGED httpVars

(***************************************************************************)
(* Close.                                                                  *)
(***************************************************************************)
\* return s.File.Close()
CloseFile(t) ==
    /\ pc[t] = "close"
    /\ \E o \in FileClose(closed, faults) :
         /\ ret' = [ret EXCEPT ![t] = Result(t, IF o.err THEN "err" ELSE "ok", 0, 0, << >>, Len(appended))]
         /\ faults' = o.faults
    /\ closed' = TRUE
    /\ pc' = [pc EXCEPT ![t] = "unlock"]
    /\ UNCHANGED <<phase, initFile, file, buf, werr, size, mu, arg, appended, ops>>
    /\ UNCHANGED httpVars


(***************************************************************************)
(* The HTTP handlers.                                                      *)
(***************************************************************************)
\* a produce handler that appends whatever the decoder left in req
HandleProduceAppendFirst ==
    /\ served < MaxReqs
    /\ \E b \in Bodies :
         LET d == DecodeProduce(b)
         IN  /\ req' = [handler |-> "produce", body |-> b]
             /\ \E o \in LogAppend(log, d.record) :
                  /\ log' = o.log
                  /\ logRet' = [op |-> "Append", err |-> o.err, offset |-> o.off, record |-> d.record]
                  /\ logCalls' = logCalls + 1
                  /\ resp' = IF d.err THEN HTTPError(StatusBadRequest)
                             ELSE IF o.err # None THEN HTTPError(StatusInternalServerError)
                             ELSE ProduceResponse(o.off)
                  /\ produced' = produced
    /\ served' = served + 1
    /\ UNCHANGED storeVars

HandleProduce ==
    /\ served < MaxReqs
    /\ \E b \in Bodies :
         LET d == DecodeProduce(b)
         IN  /\ req' = [handler |-> "produce", body |-> b]
             /\ IF d.err
                THEN /\ resp' = HTTPError(StatusBadRequest)
                     /\ logRet' = NoLogRet
                     /\ UNCHANGED <<log, logCalls, produced>>
                ELSE \E o \in LogAppend(log, d.record) :
                       /\ log' = o.log
                       /\ logRet' = [op |-> "Append", err |-> o.err, offset |-> o.off, record |-> d.record]
                       /\ logCalls' = logCalls + 1
                       /\ IF o.err # None
                          THEN /\ resp' = HTTPError(StatusInternalServerError)
                               /\ produced' = produced
                          ELSE \E r \in Encode(ProduceResponse(o.off)) :
                                 /\ resp' = r
                                 /\ produced' = IF r.kind = "json"
                                                THEN produced \o <<[rec |-> d.record, off |-> r.offset]>>
                                                ELSE produced
    /\ served' = served + 1
    /\ UNCHANGED storeVars

\* a consume handler that answers every error of the Log alike
ConsumeStatusAlways500(err) == StatusInternalServerError

\* the status for an error of Log.Read: ErrOffsetNotFound, or any other
ConsumeStatus(err) ==
    IF err = "notfound" THEN StatusNotFound ELSE StatusInternalServerError

HandleConsume ==
    /\ served < MaxReqs
    /\ \E b \in Bodies :
         LET d == DecodeConsume(b)
         IN  /\ req' = [handler |-> "consume", body |-> b]
             /\ IF d.err
                THEN /\ resp' = HTTPError(StatusBadRequest)
                     /\ logRet' = NoLogRet
                     /\ UNCHANGED logCalls
                ELSE \E o \in LogRead(log, d.offset) :
                       /\ logRet' = [op |-> "Read", err |-> o.err, offset |-> d.offset, record |-> o.rec]
                       /\ logCalls' = logCalls + 1
                       /\ IF o.err # None
                          THEN resp' = HTTPError(ConsumeStatus(o.err))
                          ELSE resp' \in Encode(ConsumeResponse(o.rec))
    /\ served' = served + 1
    /\ UNCHANGED <<log, produced>>
    /\ UNCHANGED storeVars

Next ==
    \/ NewStore
    \/ \E t \in Threads : Call(t)
    \/ \E t \in Threads : Lock(t)
    \/ \E t \in Threads : Unlock(t)
    \/ \E t \in Threads : StoreAppend(t)
    \/ \E t \in Threads : ReadFlush(t)
    \/ \E t \in Threads : ReadRecord(t)
    \/ \E t \in Threads : ReadAtFlush(t)
    \/ \E t \in Threads : ReadAtFile(t)
    \/ \E t \in Threads : CloseFlush(t)
    \/ \E t \in Threads : CloseFile(t)

Spec == Init /\ [][Next]_vars

\* the steps a thread takes between acquiring the mutex and returning
Step(t) ==
    \/ StoreAppend(t)
    \/ ReadFlush(t)
    \/ ReadRecord(t)
    \/ ReadAtFlush(t)
    \/ ReadAtFile(t)
    \/ CloseFlush(t)
    \/ CloseFile(t)
    \/ Unlock(t)

\* a running goroutine keeps running, and a goroutine waiting for the mutex
\* gets it if it is free again and again (sync.Mutex hands the lock to a
\* starving waiter)
Fairness ==
    \A t \in Threads : WF_vars(Step(t)) /\ SF_vars(Lock(t))

SpecFair == Spec /\ Fairness

\* the server alone: it holds a Log and no store
InitServer == Init /\ initFile = << >>

NextHTTP ==
    \/ HandleProduce
    \/ HandleConsume

SpecHTTP == InitServer /\ [][NextHTTP]_vars

(***************************************************************************)
(* What the specification says the store file holds.                       *)
(***************************************************************************)
RECURSIVE Pow256(_)
Pow256(k) == IF k = 0 THEN 1 ELSE 256 * Pow256(k - 1)

\* the 8-byte big-endian length prefix of a record of n bytes (n < 2^24)
ExpectedPrefix(n) ==
    [i \in 1..8 |-> IF i <= 5 THEN 0 ELSE (n \div Pow256(8 - i)) % 256]

RECURSIVE ExpectedFrames(_)
\* the frames of the records of as, back to back
ExpectedFrames(as) ==
    IF as = << >> THEN << >>
    ELSE ExpectedFrames(SubSeq(as, 1, Len(as) - 1))
         \o ExpectedPrefix(Len(as[Len(as)].rec)) \o as[Len(as)].rec

\* the file when everything appended so far is flushed
ExpectedFile == initFile \o ExpectedFrames(appended)

RECURSIVE ExpectedPos(_)
\* where the frame of the k-th appended record begins
ExpectedPos(k) ==
    IF k = 1 THEN Len(initFile)
    ELSE ExpectedPos(k - 1) + 8 + Len(appended[k - 1].rec)

\* the pc values at which a thread is inside a critical section
CriticalSection == {"append", "flush", "read", "readat", "close", "unlock"}

IsPrefix(s, u) == Len(s) <= Len(u) /\ SubSeq(u, 1, Len(s)) = s

(***************************************************************************)
(* C1: the position the k-th successful Append returns is the offset at    *)
(* which that record's length prefix begins: the length of the file at     *)
(* construction plus 8 + len(record) for every record appended earlier.    *)
(* Fails: Append sets size to the count of the last record alone.          *)
(***************************************************************************)
C1_PositionIsFrameStart ==
    \A k \in 1..Len(appended) : appended[k].pos = ExpectedPos(k)

(***************************************************************************)
(* C2: in every state of a store (with no I/O fault injected) the size     *)
(* field equals the bytes in the file plus the bytes in the buffered       *)
(* writer.  Fails for the same reason.                                     *)
(***************************************************************************)
C2_SizeIsLogicalEnd ==
    (phase = "open" /\ faults = 0) => size = Len(file) + Len(buf)

(***************************************************************************)
(* C3: round trip: a Read at the position an earlier Append returned       *)
(* (store not closed, no I/O fault) succeeds and returns exactly the bytes *)
(* given to that Append.  Fails: the positions are wrong.                  *)
(***************************************************************************)
C3_ReadRoundTrip ==
    \A t \in Threads :
        (ret[t].op = "Read" /\ faults = 0 /\ ~closed) =>
            \A k \in 1..ret[t].seen :
                appended[k].pos = ret[t].pos =>
                    ret[t].kind = "ok" /\ ret[t].data = appended[k].rec

(***************************************************************************)
(* C4: the positions handed out to the Appends are pairwise distinct and   *)
(* increase in the order the Appends took the lock.  Fails: size, and so   *)
(* the next position, can go down or stay.                                 *)
(***************************************************************************)
C4_PositionsIncrease ==
    \A j, k \in 1..Len(appended) : j < k => appended[j].pos < appended[k].pos

(***************************************************************************)
(* C5: mutual exclusion: at most one thread is inside the critical section *)
(* of Append, Read, ReadAt or Close, and that thread holds the mutex.      *)
(***************************************************************************)
C5_MutualExclusion ==
    /\ \A t, u \in Threads :
         (pc[t] \in CriticalSection /\ pc[u] \in CriticalSection) => t = u
    /\ \A t \in Threads : pc[t] \in CriticalSection => mu = t

\* one thread is in Append while the other waits for the lock
C5_Witness ==
    \E t, u \in Threads : pc[t] = "append" /\ pc[u] = "lock"

(***************************************************************************)
(* C6: visibility barrier: when Read or ReadAt is at its positional read,  *)
(* the buffer is empty and the frame of every Append that returned is in   *)
(* the file, at the offset where it belongs.                               *)
(***************************************************************************)
C6_FlushBeforePositionalRead ==
    \A t \in Threads :
        pc[t] \in {"read", "readat"} =>
            /\ buf = << >>
            /\ ~werr
            /\ \A k \in 1..Len(appended) :
                 LET at == ExpectedPos(k)
                     fr == ExpectedPrefix(Len(appended[k].rec)) \o appended[k].rec
                 IN  /\ at + Len(fr) <= Len(file)
                     /\ SubSeq(file, at + 1, at + Len(fr)) = fr

\* a Read is at its positional read after two Appends returned
C6_Witness ==
    \E t \in Threads : pc[t] = "read" /\ Len(appended) >= 2 /\ ~closed

(***************************************************************************)
(* C7: store file format: after the flush of Read, ReadAt or Close the     *)
(* file is the bytes present at construction followed by, for each         *)
(* appended record in order, its 8-byte big-endian length and its payload; *)
(* and no step changes bytes that are already in the file.                 *)
(***************************************************************************)
C7_FileFormat ==
    /\ [](\A t \in Threads : pc[t] \in {"read", "readat", "close"} => file = ExpectedFile)
    /\ [][IsPrefix(file, file')]_vars

\* a flush has happened with an empty, a short and a long record appended
C7_Witness ==
    /\ \E t \in Threads : pc[t] \in {"read", "readat", "close"}
    /\ Len(appended) = 2
    /\ appended[1].rec = LongRecord
    /\ appended[2].rec = <<1, 2>>
    /\ initFile # << >>

(***************************************************************************)
(* C8: newStore on an existing file succeeds and sets size to the file's   *)
(* length, so the first Append returns that length as its position.        *)
(***************************************************************************)
C8_SizeRecovered ==
    /\ phase = "failed" => faults > 0
    /\ (phase = "open" /\ appended = << >>) => size = Len(initFile)
    /\ appended # << >> => appended[1].pos = Len(initFile)

\* the first Append on a store built over a file that holds 9 bytes
C8_Witness ==
    /\ initFile # << >>
    /\ Len(appended) = 1
    /\ appended[1].pos = 9

(***************************************************************************)
(* C9: a successful Append(p) returns 8 + len(p) as its count.             *)
(***************************************************************************)
C9_CountIsFrameLength ==
    /\ \A k \in 1..Len(appended) : appended[k].n = 8 + Len(appended[k].rec)
    /\ \A t \in Threads :
         (ret[t].op = "Append" /\ ret[t].kind = "ok") =>
             \E k \in 1..Len(appended) : appended[k].n = ret[t].n /\ appended[k].pos = ret[t].pos

\* an empty record and a long one were appended
C9_Witness ==
    \E j, k \in 1..Len(appended) :
        appended[j].rec = << >> /\ appended[j].n = 8 /\ appended[k].rec = LongRecord

(***************************************************************************)
(* C10: Close flushes, then closes: the buffer is empty when the handle is *)
(* closed, and after a successful Close the file holds the complete frame  *)
(* of every record whose Append returned before the Close.                 *)
(***************************************************************************)
C10_CloseFlushesFirst ==
    /\ \A t \in Threads : pc[t] = "close" => (buf = << >> /\ ~werr /\ file = ExpectedFile)
    /\ \A t \in Threads :
         (ret[t].op = "Close" /\ ret[t].kind = "ok") =>
             /\ closed
             /\ file = initFile \o ExpectedFrames(SubSeq(appended, 1, ret[t].seen))

\* a Close succeeded after two Appends
C10_Witness ==
    \E t \in Threads :
        ret[t].op = "Close" /\ ret[t].kind = "ok" /\ ret[t].seen = 2 /\ file # initFile

(***************************************************************************)
(* C11: Read(pos) returns an error and no bytes whenever the 8-byte prefix *)
(* at pos does not lie inside the flushed file or fewer bytes follow it    *)
(* than it announces; a Read that succeeds returns the whole record.       *)
(* Fails: a prefix of 2^48 or more makes make([]byte, ...) panic.          *)
(***************************************************************************)
\* the prefix at pos is not in f, or announces more bytes than follow it
OutOfRangeOrShort(f, pos) ==
    \/ pos + 8 > Len(f)
    \/ \E i \in 1..5 : f[pos + i] # 0
    \/ f[pos + 6] * 65536 + f[pos + 7] * 256 + f[pos + 8] > Len(f) - (pos + 8)

C11_ReadFailsWithError ==
    [][\A t \in Threads :
         (pc[t] = "read" /\ pc'[t] = "unlock") =>
             /\ OutOfRangeOrShort(file, arg[t].pos) =>
                    (ret'[t].kind = "err" /\ ret'[t].data = << >>)
             /\ ret'[t].kind \in {"ok", "err"}]_vars

(***************************************************************************)
(* C12: an I/O error met by a store operation (an injected fault, or a     *)
(* write that fails and sets the writer's error) is returned by the call   *)
(* that met it, which ends there: no second attempt is made.               *)
(***************************************************************************)
C12_ErrorsPropagate ==
    [][(phase = "open" /\ (faults' # faults \/ werr' # werr)) =>
         \E t \in Threads :
             /\ mu = t
             /\ pc[t] \in {"append", "flush", "read", "readat", "close"}
             /\ pc'[t] = "unlock"
             /\ ret'[t].op = arg[t].op
             /\ ret'[t].kind = "err"
             /\ faults' <= faults + 1]_vars

\* a Read whose flush hit an injected fault returned an error
C12_Witness ==
    \E t \in Threads :
        ret[t].op = "Read" /\ ret[t].kind = "err" /\ werr /\ faults = 1 /\ ~closed

(***************************************************************************)
(* C14: a second Close does not corrupt data: once the handle is closed    *)
(* the content of the file never changes again.                            *)
(***************************************************************************)
C14_ClosedFileIsStable ==
    [][closed => file' = file]_vars

\* a Close succeeded, a record was appended after it, and a second Close returned
C14_Witness ==
    \E t, u \in Threads :
        /\ ret[t].op = "Close" /\ ret[t].kind = "ok"
        /\ ret[u].op = "Close" /\ ret[u].kind = "err" /\ pc[u] = "idle"
        /\ Len(appended) > ret[t].seen

(***************************************************************************)
(* C17: an Append that fails returns n = 0 and pos = 0 with the error and  *)
(* leaves size as it was, whatever part of the frame reached the writer.   *)
(***************************************************************************)
C17_FailedAppendKeepsSize ==
    [][\A t \in Threads :
         (pc[t] = "append" /\ pc'[t] = "unlock" /\ werr') =>
             /\ ret'[t].kind = "err"
             /\ ret'[t].n = 0
             /\ ret'[t].pos = 0
             /\ size' = size
             /\ appended' = appended]_vars

\* an Append failed on an open store after part of its frame was handed over
C17_Witness ==
    \E t \in Threads :
        /\ ret[t].op = "Append" /\ ret[t].kind = "err" /\ pc[t] = "unlock"
        /\ ~closed
        /\ size > 0
        /\ Len(file) + Len(buf) > Len(ExpectedFile)

(***************************************************************************)
(* C18: Read and ReadAt change neither size nor the bytes of the log (the  *)
(* file followed by the buffer): they only move bytes from the buffer to   *)
(* the file.                                                               *)
(***************************************************************************)
C18_ReadsOnlyFlush ==
    [][(\E t \in Threads :
           arg[t].op \in {"Read", "ReadAt"} /\ pc[t] \in {"flush", "read", "readat"}) =>
         /\ size' = size
         /\ file' \o buf' = file \o buf
         /\ IsPrefix(file, file')
         /\ closed' = closed
         /\ appended' = appended]_vars

\* a Read's flush moved the frame of <<1, 2>> from the buffer to an empty file
C18_Witness ==
    \E t \in Threads :
        /\ pc[t] = "read"
        /\ initFile = << >>
        /\ Len(appended) = 1
        /\ appended[1].rec = <<1, 2>>
        /\ file = ExpectedFile

(***************************************************************************)
(* C19: when the flush inside Close fails, Close returns the error and     *)
(* does not close the handle; when the flush inside Read or ReadAt fails,  *)
(* no positional read is made and no data is returned.                     *)
(***************************************************************************)
C19_FailedFlushEndsCall ==
    [][\A t \in Threads :
         (pc[t] = "flush" /\ pc'[t] # "flush" /\ werr') =>
             /\ pc'[t] = "unlock"
             /\ closed' = closed
             /\ ret'[t].op = arg[t].op
             /\ ret'[t].kind = "err"
             /\ ret'[t].n = 0
             /\ ret'[t].data = << >>]_vars

\* a Close returned its flush error and the handle is still open
C19_Witness ==
    \E t \in Threads :
        ret[t].op = "Close" /\ ret[t].kind = "err" /\ werr /\ ~closed /\ buf # << >>

(***************************************************************************)
(* C16: every store operation returns (a result or an error) and releases  *)
(* the lock on every exit path; under fair scheduling a thread waiting for *)
(* the lock gets it, and a lock that is held is released.                  *)
(* Fails: a Read that panics (C11) neither completes nor returns an error. *)
(***************************************************************************)
C16_OperationsReturn ==
    /\ [](\A t \in Threads : ret[t].kind \in {None, "ok", "err"})
    /\ [](\A t \in Threads : mu = t => pc[t] \in CriticalSection)
    /\ \A t \in Threads : (pc[t] = "lock") ~> (mu = t)
    /\ \A t \in Threads : (mu = t) ~> (mu # t)

\* the part of C16 about the lock alone
C16_LockIsReleased ==
    /\ [](\A t \in Threads : mu = t => pc[t] \in CriticalSection)
    /\ \A t \in Threads : (pc[t] = "lock") ~> (mu = t)
    /\ \A t \in Threads : (mu = t) ~> (mu # t)

(***************************************************************************)
(* C13: the consume handler answers ErrOffsetNotFound from Log.Read with   *)
(* 404 Not Found and any other error of Log.Read with 500 Internal Server  *)
(* Error, and it writes a record body only when Log.Read returned no       *)
(* error (the body then carries the record Log.Read returned).             *)
(***************************************************************************)
C13_NotFoundIsDistinct ==
    req.handler = "consume" =>
        /\ logRet.err = "notfound" => resp.status = StatusNotFound /\ resp.kind = "text"
        /\ logRet.err = "other" => resp.status = StatusInternalServerError /\ resp.kind = "text"
        /\ resp.kind = "json" =>
               /\ logRet.op = "Read"
               /\ logRet.err = None
               /\ resp.record = logRet.record

\* a consume past the end of a Log that holds records was answered 404
C13_Witness ==
    /\ req.handler = "consume"
    /\ log # << >>
    /\ logRet.op = "Read"
    /\ logRet.err = "notfound"
    /\ resp.status = StatusNotFound

\* the offset a consume request asks for
AskedOffset == IF "offset" \in req.body.has THEN req.body.offset ELSE 0

(***************************************************************************)
(* C15: round trip through the service.  For every record the produce      *)
(* handler accepted (Log.Append returned offset o and the response carried *)
(* o), a later consume request for o is never answered 404 and never with  *)
(* another record: when Log.Read and the write of the response succeed,    *)
(* the response carries exactly that record, however many records were     *)
(* produced in between.                                                    *)
(***************************************************************************)
C15_ServiceRoundTrip ==
    \A i \in 1..Len(produced) :
        (req.handler = "consume" /\ req.body.json = "object" /\ req.body.offsetOK
         /\ AskedOffset = produced[i].off) =>
            /\ resp.status # StatusNotFound
            /\ resp.kind = "json" => resp.record = produced[i].rec
            /\ (logRet.err = None /\ resp.kind # "broken") =>
                   /\ resp.status = StatusOK
                   /\ resp.kind = "json"
                   /\ resp.record = produced[i].rec

\* the first of three produced records was consumed after the other two
C15_Witness ==
    /\ Len(produced) = 3
    /\ produced[1].rec # produced[2].rec
    /\ req.handler = "consume"
    /\ "offset" \in req.body.has
    /\ req.body.offset = produced[1].off
    /\ resp.kind = "json"
    /\ resp.record = produced[1].rec

\* the body of a request does not decode
Malformed(r) ==
    \/ r.body.json = "garbage"
    \/ r.handler = "consume" /\ "offset" \in r.body.has /\ ~r.body.offsetOK

(***************************************************************************)
(* C20: a handler calls the Log at most once per request, and only after   *)
(* the body decoded.  When decoding fails the response is 400 Bad Request  *)
(* and the Log is neither appended to nor read; when Log.Append fails,     *)
(* handleProduce responds 500 and writes no offset.                        *)
(***************************************************************************)
C20_LogCalledAfterDecode ==
    [][served' = served + 1 =>
          /\ logCalls' \in {logCalls, logCalls + 1}
          /\ Malformed(req') =>
                 /\ resp'.status = StatusBadRequest
                 /\ resp'.kind = "text"
                 /\ log' = log
                 /\ logCalls' = logCalls
                 /\ logRet'.op = None
          /\ logCalls' = logCalls + 1 => ~Malformed(req')
          /\ (req'.handler = "produce" /\ logRet'.op = "Append" /\ logRet'.err # None) =>
                 /\ resp'.status = StatusInternalServerError
                 /\ resp'.kind = "text"
                 /\ log' = log]_vars

\* a produce whose body is not JSON was answered 400 by a server whose Log
\* holds records
C20_Witness ==
    /\ req.handler = "produce"
    /\ req.body.json = "garbage"
    /\ resp.status = StatusBadRequest
    /\ log # << >>
    /\ logRet.op = None

====
